---- MODULE Spec2Model ----
(***************************************************************************)
(* Video thumbnail generator: the utility functions of                     *)
(* utils/thumbnailGenerator (generateThumbnailFromVideo,                   *)
(* createThumbnailFileName, batchGenerateThumbnails, isValidVideoFile) and *)
(* the ThumbnailUploader component that drives them (handleFiles,          *)
(* clearThumbnails).                                                       *)
(*                                                                         *)
(* JavaScript runs to completion between suspension points: the variable   *)
(* pc records where the one async call chain of the uploader is suspended, *)
(* and the browser's event handlers (media events, the encoder callback,   *)
(* clicks and drops) fire only while the call stack is empty.              *)
(*                                                                         *)
(* Time is counted in whole seconds.  Strings that the code inspects       *)
(* (file names) are sequences of one-character strings.                    *)
(***************************************************************************)
EXTENDS Integers, Sequences, FiniteSets, TLC

VARIABLES
    files,                \* handleFiles: files, while the call is suspended
    batches,              \* number of handleFiles calls so far
    processing,           \* useState: processing
    progress,             \* useState: progress, an exact fraction num/den
    generatedThumbnails,  \* useState: generatedThumbnails
    pc,                   \* "idle" | "loop" | "await" | "returned"
    videoFiles,           \* batchGenerateThumbnails: videoFiles
    i,                    \* batchGenerateThumbnails: loop index (0-based)
    results,              \* batchGenerateThumbnails: results
    ext,                  \* per input of the batch: its extraction (promise, media element)
    urlStore,             \* the browser's blob URL store: revocations of each URL
    progressCalls,        \* invocations of onProgress in the current batch, in order
    consoleErrors,        \* console.error lines of the current batch: the file named
    videoFileName,        \* argument of a direct createThumbnailFileName call
    thumbFileName         \* its result, <<>> before the call

vars == <<files, batches, processing, progress, generatedThumbnails, pc, videoFiles,
          i, results, ext, urlStore, progressCalls, consoleErrors,
          videoFileName, thumbFileName>>

uploaderVars == <<files, batches, processing, progress, generatedThumbnails, pc,
                  videoFiles, i, results, ext, urlStore, progressCalls,
                  consoleErrors>>

nameVars == <<videoFileName, thumbFileName>>

-----------------------------------------------------------------------------
(* Bounds *)

MaxFiles == 2

MaxBatches == 2

MaxDuration == 1

MaxNameLen == 5

-----------------------------------------------------------------------------
(* utils/thumbnailGenerator: pure functions *)

Min(a, b) == IF a <= b THEN a ELSE b

\* validTypes of isValidVideoFile
validTypes == {"video/mp4", "video/webm", "video/ogg", "video/quicktime", "video/x-msvideo"}

IsValidVideoFileAny(file) == TRUE

IsValidVideoFile(file) == file.type \in validTypes

\* The regular expression /\.[^/.]+$/ matched at position p of s: a '.', then one or
\* more characters other than '/' and '.', then the end of the input.
MatchesAtFirstDot(s, p) ==
    /\ s[p] = "."
    /\ p < Len(s)

MatchesAt(s, p) ==
    /\ s[p] = "."
    /\ p < Len(s)
    /\ \A q \in (p + 1)..Len(s) : s[q] \notin {"/", "."}

\* String.prototype.replace with a non-global regex: the leftmost match (0: none).
FirstMatch(s) ==
    IF \E p \in 1..Len(s) : MatchesAt(s, p)
    THEN CHOOSE p \in 1..Len(s) :
             /\ MatchesAt(s, p)
             /\ \A q \in 1..(p - 1) : ~MatchesAt(s, q)
    ELSE 0

ThumbSuffix == <<"-", "t", "h", "u", "m", "b", ".", "j", "p", "g">>

\* The pattern ends in $, so a match runs to the end of the name: replacing it by ''
\* leaves the text before the match.
CreateThumbnailFileName(videoFileName_) ==
    LET p == FirstMatch(videoFileName_)
        nameWithoutExtension ==
            IF p = 0 THEN videoFileName_ ELSE SubSeq(videoFileName_, 1, p - 1)
    IN  nameWithoutExtension \o ThumbSuffix

-----------------------------------------------------------------------------
(* The browser: blob URLs, files offered to the uploader *)

\* A blob URL is an opaque unique string.  Here it is the pair <<kind, n>>: what the
\* URL refers to ("source": the video file, created by generateThumbnailFromVideo;
\* "image": the encoded thumbnail; "preview": the video file, created by handleFiles)
\* and its ordinal among the URLs of that kind.  urlStore[kind][n] counts the
\* revokeObjectURL calls on it.
NoUrl == <<>>

UrlKinds == {"source", "image", "preview"}

\* The URL the next URL.createObjectURL of this kind returns.
FreshUrl(store, kind) == <<kind, Len(store[kind]) + 1>>

\* URL.createObjectURL
CreateObjectURL(store, kind) == [store EXCEPT ![kind] = Append(@, 0)]

\* URL.revokeObjectURL applied once per occurrence of a URL in the sequence urls.
RevokeAll(store, urls) ==
    [kind \in UrlKinds |->
        [n \in DOMAIN store[kind] |->
            store[kind][n] + Cardinality({k \in DOMAIN urls : urls[k] = <<kind, n>>})]]

\* Names and declared media types of the files a user can drop.
FilePool ==
    { [name |-> <<"a", ".", "m">>, type |-> "video/mp4"],
      [name |-> <<"a">>,           type |-> "video/quicktime"],
      [name |-> <<"a", ".", "j">>, type |-> "image/jpeg"] }

\* A drop or file selection: 1..MaxFiles files, the id of a file is its position.
Drops ==
    UNION { { [k \in 1..n |-> [id |-> k, name |-> f[k].name, type |-> f[k].type]] :
                f \in [1..n -> FilePool] } : n \in 1..MaxFiles }

-----------------------------------------------------------------------------
(* generateThumbnailFromVideo: the promise and the media pipeline of one call *)

NotStarted ==
    [phase |-> "none", promise |-> "none", value |-> NoUrl, error |-> "none",
     attempts |-> 0, sourceUrl |-> NoUrl, duration |-> -1, currentTime |-> 0,
     seen |-> {}]

\* resolve and reject of a promise settle it once; later calls change nothing.
Resolve(e, v) ==
    IF e.promise = "pending" THEN [e EXCEPT !.promise = "fulfilled", !.value = v] ELSE e

Reject(e, msg) ==
    IF e.promise = "pending" THEN [e EXCEPT !.promise = "rejected", !.error = msg] ELSE e

\* handleFiles passes 1 as timeInSeconds (also the parameter's default).
ThumbnailTime == 1

SeekTargetUnclamped(timeInSeconds, duration) == timeInSeconds

\* video.currentTime = Math.min(timeInSeconds, video.duration)
SeekTarget(timeInSeconds, duration) == Min(timeInSeconds, duration)

CtxUsableAlways(ctx) == TRUE

\* if (!ctx) { reject(...); return; }
CtxUsable(ctx) == ctx

\* The promise executor: the canvas context is checked first; only with a context
\* are the listeners added, the source URL created and the video loaded.
\* url is the URL createObjectURL would return.
Executor(e, ctx, url) ==
    LET called == [e EXCEPT !.attempts = @ + 1, !.promise = "pending",
                            !.seen = @ \cup (IF ctx THEN {} ELSE {"noctx"})]
    IN  IF ~CtxUsable(ctx)
        THEN [Reject(called, "Canvas context not available") EXCEPT !.phase = "closed"]
        ELSE [called EXCEPT !.phase = "loading", !.sourceUrl = url]

\* 'loadedmetadata' listener
OnLoadedMetadata(e, timeInSeconds, duration) ==
    [e EXCEPT !.phase = "seeking", !.duration = duration,
              !.currentTime = SeekTarget(timeInSeconds, duration),
              !.seen = @ \cup {"loadedmetadata"}]

\* 'seeked' listener: drawImage, then toBlob is requested; a throw is caught and rejects.
OnSeeked(e, drawOk) ==
    IF drawOk
    THEN [e EXCEPT !.phase = "encoding", !.seen = @ \cup {"seeked"}]
    ELSE [Reject(e, "drawImage threw") EXCEPT !.phase = "closed",
                                              !.seen = @ \cup {"seeked", "drawthrow"}]

\* 'error' listener
OnError(e) ==
    [Reject(e, "Video failed to load") EXCEPT !.phase = "closed",
                                              !.seen = @ \cup {"error"}]

BlobUsableAlways(blob) == TRUE

\* if (blob) ... else ...
BlobUsable(blob) == blob

\* toBlob callback: with bytes, resolve with a new image URL; without, reject.
OnToBlob(e, blob, url) ==
    IF BlobUsable(blob)
    THEN [Resolve(e, url) EXCEPT !.phase = "closed",
                                 !.seen = @ \cup {IF blob THEN "blob" ELSE "nullblob"}]
    ELSE [Reject(e, "Failed to create thumbnail blob") EXCEPT !.phase = "closed",
                                                              !.seen = @ \cup {"nullblob"}]

\* Once the awaiting caller has taken the outcome, the promise, the video and the
\* canvas are unreachable: what stays is that the call was made and how it ended.
Consumed(e) ==
    [NotStarted EXCEPT !.phase = "closed", !.promise = e.promise, !.value = e.value,
                       !.attempts = e.attempts]

-----------------------------------------------------------------------------
(* batchGenerateThumbnails *)

LoopContinuesShort(idx, n) == idx < n - 1

\* for (let i = 0; i < videoFiles.length; i++)
LoopContinues(idx, n) == idx < n

AwaitSettledNever(e) == TRUE

\* await: the function resumes once the promise has settled
AwaitSettled(e) == e.promise \in {"fulfilled", "rejected"}

PushResultFront(res, file, thumbnail) ==
    <<[file |-> file, thumbnail |-> thumbnail,
       fileName |-> CreateThumbnailFileName(file.name)]>> \o res

\* results.push({ file, thumbnail, fileName })
PushResult(res, file, thumbnail) ==
    Append(res, [file |-> file, thumbnail |-> thumbnail,
                 fileName |-> CreateThumbnailFileName(file.name)])

Zero == [num |-> 0, den |-> 1]

\* (completed / total) * 100, kept exact
Percent(completed, total) == [num |-> completed * 100, den |-> total]

OnProgressCallsAlways(calls, outcome, completed, total) ==
    Append(calls, [completed |-> completed, total |-> total,
                   percent |-> Percent(completed, total)])

\* onProgress?.(i + 1, videoFiles.length) is the last statement of the try block:
\* it runs only when the await did not throw.  The uploader's callback computes
\* (completed / total) * 100 for setProgress.
OnProgressCalls(calls, outcome, completed, total) ==
    IF outcome = "fulfilled"
    THEN Append(calls, [completed |-> completed, total |-> total,
                        percent |-> Percent(completed, total)])
    ELSE calls

-----------------------------------------------------------------------------
(* ThumbnailUploader *)

\* String(index + 1).padStart(2, '0')
PadStart2(n) == IF n < 10 THEN <<0, n>> ELSE <<n \div 10, n % 10>>

\* results.map((result, index) => ({ src, thumbnail, title, aspectRatio }));
\* the src URLs are created in order, base is the number of such URLs before.
ThumbnailData(res, base) ==
    [k \in 1..Len(res) |->
        [src |-> <<"preview", base + k>>, thumbnail |-> res[k].thumbnail,
         title |-> <<"VIDEO">> \o PadStart2(k), aspectRatio |-> "video"]]

\* No JavaScript is running: the async chain is idle or suspended on a pending promise.
CallStackEmpty ==
    \/ pc = "idle"
    \/ /\ pc = "await"
       /\ ext[i + 1].promise = "pending"

Init ==
    /\ files = <<>>
    /\ batches = 0
    /\ processing = FALSE
    /\ progress = Zero
    /\ generatedThumbnails = <<>>
    /\ pc = "idle"
    /\ videoFiles = <<>>
    /\ i = 0
    /\ results = <<>>
    /\ ext = <<>>
    /\ urlStore = [kind \in UrlKinds |-> <<>>]
    /\ progressCalls = <<>>
    /\ consoleErrors = <<>>
    /\ videoFileName = <<>>
    /\ thumbFileName = <<>>

\* handleFiles up to its await: filter, the alert-and-return on no video, else the
\* state updates and the call of batchGenerateThumbnails (results = []).
\* The drop area ignores pointer events while processing.
HandleFiles(fs) ==
    /\ pc = "idle"
    /\ ~processing
    /\ batches < MaxBatches
    /\ batches' = batches + 1
    /\ LET vf == SelectSeq(fs, IsValidVideoFile)
       IN  IF Len(vf) = 0
           THEN UNCHANGED <<files, processing, progress, generatedThumbnails, pc,
                            videoFiles, i, results, ext, urlStore, progressCalls,
                            consoleErrors>>
           ELSE /\ files' = fs
                /\ processing' = TRUE
                /\ progress' = Zero
                /\ videoFiles' = vf
                /\ i' = 0
                /\ results' = <<>>
                /\ ext' = [k \in 1..Len(vf) |-> NotStarted]
                /\ progressCalls' = <<>>
                /\ consoleErrors' = <<>>
                /\ pc' = "loop"
                /\ UNCHANGED <<generatedThumbnails, urlStore>>
    /\ UNCHANGED nameVars

\* Loop head of batchGenerateThumbnails: either the next generateThumbnailFromVideo
\* call (its executor runs synchronously) and the await, or return results.
BatchLoop ==
    /\ pc = "loop"
    /\ IF LoopContinues(i, Len(videoFiles))
       THEN \E ctx \in BOOLEAN :
                /\ ext' = [ext EXCEPT ![i + 1] = Executor(@, ctx, FreshUrl(urlStore, "source"))]
                /\ urlStore' = IF ext'[i + 1].phase = "loading"
                               THEN CreateObjectURL(urlStore, "source")
                               ELSE urlStore
                /\ pc' = "await"
       ELSE /\ pc' = "returned"
            /\ UNCHANGED <<ext, urlStore>>
    /\ UNCHANGED <<files, batches, processing, progress, generatedThumbnails, videoFiles,
                   i, results, progressCalls, consoleErrors>>
    /\ UNCHANGED nameVars

LoadedMetadata(k) ==
    /\ CallStackEmpty
    /\ ext[k].phase = "loading"
    /\ \E d \in 0..MaxDuration :
           ext' = [ext EXCEPT ![k] = OnLoadedMetadata(@, ThumbnailTime, d)]
    /\ UNCHANGED <<files, batches, processing, progress, generatedThumbnails, pc,
                   videoFiles, i, results, urlStore, progressCalls, consoleErrors>>
    /\ UNCHANGED nameVars

Seeked(k) ==
    /\ CallStackEmpty
    /\ ext[k].phase = "seeking"
    /\ \E drawOk \in BOOLEAN : ext' = [ext EXCEPT ![k] = OnSeeked(@, drawOk)]
    /\ UNCHANGED <<files, batches, processing, progress, generatedThumbnails, pc,
                   videoFiles, i, results, urlStore, progressCalls, consoleErrors>>
    /\ UNCHANGED nameVars

\* The media element reports an error while the resource is opened or decoded, that
\* is before the seek has landed; afterwards the element is neither played nor sought.
VideoError(k) ==
    /\ CallStackEmpty
    /\ ext[k].phase \in {"loading", "seeking"}
    /\ ext' = [ext EXCEPT ![k] = OnError(@)]
    /\ UNCHANGED <<files, batches, processing, progress, generatedThumbnails, pc,
                   videoFiles, i, results, urlStore, progressCalls, consoleErrors>>
    /\ UNCHANGED nameVars

ToBlobCallback(k) ==
    /\ CallStackEmpty
    /\ ext[k].phase = "encoding"
    /\ \E blob \in BOOLEAN :
           /\ ext' = [ext EXCEPT ![k] = OnToBlob(@, blob, FreshUrl(urlStore, "image"))]
           /\ urlStore' = IF BlobUsable(blob)
                          THEN CreateObjectURL(urlStore, "image")
                          ELSE urlStore
    /\ UNCHANGED <<files, batches, processing, progress, generatedThumbnails, pc,
                   videoFiles, i, results, progressCalls, consoleErrors>>
    /\ UNCHANGED nameVars

\* The rest of the loop body after the await: the try block's tail or the catch block,
\* then i++.
BatchResume ==
    /\ pc = "await"
    /\ AwaitSettled(ext[i + 1])
    /\ LET e == ext[i + 1]
           n == Len(videoFiles)
       IN  /\ IF e.promise = "fulfilled"
              THEN /\ results' = PushResult(results, videoFiles[i + 1], e.value)
                   /\ progress' = Percent(i + 1, n)
                   /\ UNCHANGED consoleErrors
              ELSE /\ consoleErrors' = Append(consoleErrors, videoFiles[i + 1].id)
                   /\ UNCHANGED <<results, progress>>
           /\ progressCalls' = OnProgressCalls(progressCalls, e.promise, i + 1, n)
    /\ ext' = [ext EXCEPT ![i + 1] = Consumed(@)]
    /\ i' = i + 1
    /\ pc' = "loop"
    /\ UNCHANGED <<files, batches, processing, generatedThumbnails, videoFiles, urlStore>>
    /\ UNCHANGED nameVars

\* handleFiles after its await: map the results, publish them, finally clear processing.
\* The call chain has ended: its parameters and locals are gone.
HandleFilesFinish ==
    /\ pc = "returned"
    /\ generatedThumbnails' = ThumbnailData(results, Len(urlStore["preview"]))
    /\ urlStore' = [urlStore EXCEPT !["preview"] = @ \o [k \in 1..Len(results) |-> 0]]
    /\ processing' = FALSE
    /\ pc' = "idle"
    /\ files' = <<>>
    /\ videoFiles' = <<>>
    /\ i' = 0
    /\ results' = <<>>
    /\ ext' = <<>>
    /\ progressCalls' = <<>>
    /\ consoleErrors' = <<>>
    /\ UNCHANGED <<batches, progress>>
    /\ UNCHANGED nameVars

\* clearThumbnails; its button is rendered only while thumbnails are displayed.
ClearThumbnails ==
    /\ CallStackEmpty
    /\ Len(generatedThumbnails) > 0
    /\ urlStore' = RevokeAll(urlStore,
                             [k \in 1..Len(generatedThumbnails) |-> generatedThumbnails[k].src]
                             \o [k \in 1..Len(generatedThumbnails) |->
                                    generatedThumbnails[k].thumbnail])
    /\ generatedThumbnails' = <<>>
    /\ progress' = Zero
    /\ UNCHANGED <<files, batches, processing, pc, videoFiles, i, results, ext,
                   progressCalls, consoleErrors>>
    /\ UNCHANGED nameVars

Next ==
    \/ \E fs \in Drops : HandleFiles(fs)
    \/ BatchLoop
    \/ \E k \in DOMAIN ext : LoadedMetadata(k)
    \/ \E k \in DOMAIN ext : Seeked(k)
    \/ \E k \in DOMAIN ext : VideoError(k)
    \/ \E k \in DOMAIN ext : ToBlobCallback(k)
    \/ BatchResume
    \/ HandleFilesFinish
    \/ ClearThumbnails

Spec == Init /\ [][Next]_vars

\* The event loop runs a ready continuation, and the media element and the encoder
\* answer every request with one of their events.
Continuation == BatchLoop \/ BatchResume \/ HandleFilesFinish

MediaEvent ==
    \E k \in DOMAIN ext : LoadedMetadata(k) \/ Seeked(k) \/ VideoError(k) \/ ToBlobCallback(k)

FairSpec == Spec /\ WF_vars(Continuation) /\ WF_vars(MediaEvent)

-----------------------------------------------------------------------------
(* Direct calls of createThumbnailFileName on arbitrary names *)

NameChars == {"a", ".", "/"}

Names == UNION {[1..n -> NameChars] : n \in 0..MaxNameLen}

NameCall ==
    /\ thumbFileName = <<>>
    /\ thumbFileName' = CreateThumbnailFileName(videoFileName)
    /\ UNCHANGED videoFileName
    /\ UNCHANGED uploaderVars

NameInit ==
    /\ files = <<>>
    /\ batches = 0
    /\ processing = FALSE
    /\ progress = Zero
    /\ generatedThumbnails = <<>>
    /\ pc = "idle"
    /\ videoFiles = <<>>
    /\ i = 0
    /\ results = <<>>
    /\ ext = <<>>
    /\ urlStore = [kind \in UrlKinds |-> <<>>]
    /\ progressCalls = <<>>
    /\ consoleErrors = <<>>
    /\ videoFileName \in Names
    /\ thumbFileName = <<>>

NameNext == NameCall

NameSpec == NameInit /\ [][NameNext]_vars

-----------------------------------------------------------------------------
(* Properties *)

N == Len(videoFiles)

Settled(e) == e.promise \in {"fulfilled", "rejected"}

Succeeded == {k \in DOMAIN ext : ext[k].promise = "fulfilled"}

Failed == {k \in DOMAIN ext : ext[k].promise = "rejected"}

\* C1: when a batch of N inputs resolves, onProgress has been invoked exactly N times,
\* once per item whether it succeeded or was skipped, with completed = 1, 2, ..., N
\* in this order and total = N every time.
C1_ProgressForEveryItem ==
    pc = "returned" =>
        /\ Len(progressCalls) = N
        /\ \A k \in 1..Len(progressCalls) :
               /\ progressCalls[k].completed = k
               /\ progressCalls[k].total = N

\* C2: a batch with failing items still returns: with K of the N extractions failed,
\* the returned sequence has length N-K and holds exactly the inputs whose extraction
\* succeeded, each with the image URL its own extraction produced, in input order;
\* every failed input is absent (and logged).
C2_PartialResultsInOrder ==
    pc = "returned" =>
        /\ Len(results) = N - Cardinality(Failed)
        /\ Succeeded \cup Failed = 1..N
        /\ \A k \in Succeeded :
               \E r \in DOMAIN results :
                   /\ results[r].file = videoFiles[k]
                   /\ results[r].thumbnail = ext[k].value
                   /\ r = Cardinality({j \in Succeeded : j <= k})
        /\ \A k \in Failed :
               /\ \A r \in DOMAIN results : results[r].file # videoFiles[k]
               /\ \E c \in DOMAIN consoleErrors : consoleErrors[c] = videoFiles[k].id

C2_Witness ==
    /\ pc = "returned"
    /\ N = 2
    /\ Failed = {1}
    /\ Succeeded = {2}

\* The image URLs some variable of the uploader still refers to: displayed thumbnails,
\* results of the running batch, the outcome the batch is about to take.
HeldImageUrls ==
    {generatedThumbnails[k].thumbnail : k \in DOMAIN generatedThumbnails}
    \cup {results[k].thumbnail : k \in DOMAIN results}
    \cup {ext[k].value : k \in Succeeded}

\* C3: every image URL produced is released exactly once: none is revoked twice, and
\* one not yet revoked is still referred to by the uploader, which can release it.
C3_ImageUrlsReleasedOnce ==
    \A n \in DOMAIN urlStore["image"] :
        /\ urlStore["image"][n] <= 1
        /\ urlStore["image"][n] = 0 => <<"image", n>> \in HeldImageUrls

\* C4: generateThumbnailFromVideo is never invoked on a file of the drop whose declared
\* type is none of video/mp4, video/webm, video/ogg, video/quicktime, video/x-msvideo.
C4_RejectedNeverExtracted ==
    \A f \in DOMAIN files :
        files[f].type \notin {"video/mp4", "video/webm", "video/ogg", "video/quicktime",
                              "video/x-msvideo"}
        => \A k \in DOMAIN ext : ext[k].attempts > 0 => videoFiles[k] # files[f]

C4_Witness ==
    /\ \E f \in DOMAIN files : files[f].type = "image/jpeg"
    /\ pc = "returned"
    /\ \A k \in DOMAIN ext : ext[k].attempts > 0

\* C5: at most one extraction of a batch is in flight, and an extraction has begun only
\* if the extractions of all earlier inputs have settled.
C5_OneExtractionAtATime ==
    /\ Cardinality({k \in DOMAIN ext : ext[k].promise = "pending"}) <= 1
    /\ \A k \in DOMAIN ext :
           ext[k].attempts > 0 => \A j \in 1..(k - 1) : Settled(ext[j])

C5_Witness ==
    /\ N = 2
    /\ ext[1].promise = "fulfilled"
    /\ ext[2].promise = "pending"
    /\ ext[2].phase = "encoding"

\* C6: every batch eventually resolves, and when it resolves each input has been
\* handed to generateThumbnailFromVideo exactly once.
C6_BatchResolvesEachAttemptedOnce ==
    /\ (pc = "loop") ~> (pc = "returned")
    /\ [](pc = "returned" => \A k \in 1..N : ext[k].attempts = 1)
    /\ [](\A k \in DOMAIN ext : ext[k].attempts <= 1)

C6_Witness ==
    /\ pc = "returned"
    /\ N = 2
    /\ Failed # {}
    /\ Succeeded # {}
    /\ \A k \in 1..N : ext[k].attempts = 1

C8_FailedOutcomes ==
    \A k \in DOMAIN ext :
        /\ "noctx" \in ext[k].seen =>
               /\ ext[k].promise = "rejected"
               /\ ext[k].error = "Canvas context not available"
               /\ ext[k].sourceUrl = NoUrl
               /\ ext[k].seen = {"noctx"}
        /\ "error" \in ext[k].seen =>
               /\ ext[k].promise = "rejected"
               /\ ext[k].error = "Video failed to load"
        /\ "nullblob" \in ext[k].seen =>
               /\ ext[k].promise = "rejected"
               /\ ext[k].error = "Failed to create thumbnail blob"
               /\ "seeked" \in ext[k].seen
               /\ "drawthrow" \notin ext[k].seen
        /\ ext[k].promise = "fulfilled" /\ ext[k].seen # {} =>
               ext[k].seen = {"loadedmetadata", "seeked", "blob"}

C8_Witness ==
    /\ N = 2
    /\ consoleErrors = <<videoFiles[1].id>>
    /\ ext[2].seen = {"loadedmetadata", "seeked", "nullblob"}
    /\ ext[2].promise = "rejected"

\* The name without its final extension: the last '.' and what follows it are dropped
\* when at least one character follows and none of them is a '/'.
LastDot(s) ==
    IF \E p \in 1..Len(s) : s[p] = "."
    THEN CHOOSE p \in 1..Len(s) : s[p] = "." /\ \A q \in (p + 1)..Len(s) : s[q] # "."
    ELSE 0

Stem(s) ==
    LET d == LastDot(s)
    IN  IF d > 0 /\ d < Len(s) /\ \A q \in (d + 1)..Len(s) : s[q] # "/"
        THEN SubSeq(s, 1, d - 1)
        ELSE s

\* C9: createThumbnailFileName returns the name without its final extension, followed
\* by -thumb.jpg; earlier dots stay, a name without extension stays whole.
C9_FinalExtensionStripped ==
    /\ thumbFileName # <<>> => thumbFileName = Stem(videoFileName) \o ThumbSuffix
    /\ CreateThumbnailFileName(<<"c", "l", "i", "p", ".", "m", "p", "4">>)
         = <<"c", "l", "i", "p", "-", "t", "h", "u", "m", "b", ".", "j", "p", "g">>
    /\ CreateThumbnailFileName(<<"a", "r", "c", "h", "i", "v", "e", ".", "t", "a", "r",
                                 ".", "m", "p", "4">>)
         = <<"a", "r", "c", "h", "i", "v", "e", ".", "t", "a", "r",
             "-", "t", "h", "u", "m", "b", ".", "j", "p", "g">>
    /\ CreateThumbnailFileName(<<"c", "l", "i", "p">>)
         = <<"c", "l", "i", "p", "-", "t", "h", "u", "m", "b", ".", "j", "p", "g">>

C9_Witness ==
    /\ videoFileName = <<"a", ".", "a", ".", "a">>
    /\ thumbFileName = <<"a", ".", "a">> \o ThumbSuffix

\* C10: onProgress is invoked right after a result is appended: the invocations are as
\* many as the results, the k-th reports an item at or after position k, within
\* 1..total with total the number of inputs, and belongs to the k-th result; completed
\* increases strictly; the percentage computed from it lies in (0, 100].
C10_ProgressOnlyAfterAppend ==
    /\ Len(progressCalls) = Len(results)
    /\ \A k \in DOMAIN progressCalls :
           /\ progressCalls[k].total = N
           /\ 1 <= k
           /\ k <= progressCalls[k].completed
           /\ progressCalls[k].completed <= progressCalls[k].total
           /\ results[k].file = videoFiles[progressCalls[k].completed]
           /\ 0 < progressCalls[k].percent.num
           /\ progressCalls[k].percent.num <= 100 * progressCalls[k].percent.den
    /\ \A j, k \in DOMAIN progressCalls :
           j < k => progressCalls[j].completed < progressCalls[k].completed

C10_Witness ==
    /\ pc = "returned"
    /\ Len(progressCalls) = 1
    /\ progressCalls[1].completed = 2
    /\ Len(results) = 1

====
